---- MODULE Spec2Model ----
(***************************************************************************)
(* Forward gravity of a 2D polygon of given density (Won & Bevis 1987):    *)
(* class DensePolygon of grav.py, its constructor, its density setter and  *)
(* its method Grav.                                                        *)
(*                                                                         *)
(* Numbers.  The program computes in IEEE doubles.  A double is modelled   *)
(* as m * E^k, where E is the literal 1e-42 of Grav, m is a small integer  *)
(* and k >= 0 is the "level".  Level 0 holds the ordinary coordinates,     *)
(* level 1 the perturbed zero of Grav, and products of levels add.  A      *)
(* product whose level exceeds MaxLevel is below the smallest double       *)
(* (1e-294 is a double, 1e-336 is not) and is flushed to zero, as the      *)
(* hardware does; a sum of two levels is the summand of the lower level    *)
(* (the other one is far below half an ulp of it).  The coordinates are    *)
(* small, so nothing overflows.  atan2, log and sqrt are kept as symbols   *)
(* applied to the numbers they are computed from.                          *)
(***************************************************************************)
EXTENDS Integers, Sequences, FiniteSets, TLC

(***************************************************************************)
(* Bounds of the model.                                                    *)
(***************************************************************************)
ShellSize == 3
MaxStations == 2
MaxDensity == 1
MaxVerts == 4
KMax == 1

(***************************************************************************)
(* Doubles.                                                                *)
(***************************************************************************)
MaxLevel == 7

Zero == [m |-> 0, k |-> 0]

Norm(m, k) == IF m = 0 \/ k > MaxLevel THEN Zero ELSE [m |-> m, k |-> k]

Int2Num(n) == Norm(n, 0)

Neg(a) == Norm(0 - a.m, a.k)

Add(a, b) ==
    IF a.k = b.k THEN Norm(a.m + b.m, a.k)
    ELSE IF a.m = 0 THEN b
    ELSE IF b.m = 0 THEN a
    ELSE IF a.k < b.k THEN a ELSE b

Sub(a, b) == Add(a, Neg(b))

Mul(a, b) == Norm(a.m * b.m, a.k + b.k)

Sq(a) == Mul(a, a)

Less(a, b) ==
    IF a.k = b.k THEN a.m < b.m
    ELSE IF a.m = 0 THEN b.m > 0
    ELSE IF b.m = 0 THEN a.m < 0
    ELSE IF a.k < b.k THEN a.m < 0 ELSE b.m > 0

Geq(a, b) == ~Less(a, b)

\* the quotient n / d of two doubles, None divided by zero; the sign is
\* carried by the numerator, as (-n)/(-d) and n/d are the same double
Quot(n, d) ==
    IF d.m < 0 THEN [num |-> Neg(n), den |-> Neg(d)] ELSE [num |-> n, den |-> d]

\* the literal 1e-42 of line 56
Eps == [m |-> 1, k |-> 1]

\* a non-zero double whose square is below the smallest double (1e-168)
Tiny == [m |-> 1, k |-> (MaxLevel \div 2) + 1]

Pt(px, pz) == [x |-> px, z |-> pz]

(***************************************************************************)
(* Grav, lines 53-59: the arrays of one station.                           *)
(***************************************************************************)
\* the station minus the polygon, where the code has polygon minus station
ShiftedFromStation(coords, s) == [j \in DOMAIN coords |-> Sub(s, coords[j])]

\* x=xPolygon-xstations[i], z=zPolygon-zstations[i]: a fresh array
Shifted(coords, s) == [j \in DOMAIN coords |-> Sub(coords[j], s)]

\* z[z==0]=1e-42
Perturbed(z) == [j \in DOMAIN z |-> IF z[j] = Zero THEN Eps ELSE z[j]]

\* theta=np.arctan2(z,x): the angle of (x, z), plus wrap turns of 2*pi
Theta(x, z) == [j \in DOMAIN x |-> [x |-> x[j], z |-> z[j], w |-> 0]]

\* r=np.sqrt((x**2)+(z**2)): kept as its square
RSq(x, z) == [j \in DOMAIN x |-> Add(Sq(x[j]), Sq(z[j]))]

(***************************************************************************)
(* Grav, lines 64-106: one edge (j, j+1) of the ring.                      *)
(***************************************************************************)
\* z[j]*z[j+1]<0
Crossing(z1, z2) == Less(Mul(z1, z2), Zero)

\* line 73 testing the sign of z[j] where the code tests z[j+1]
Wrap1OtherEnd(x1, z1, x2, z2) ==
    Less(Mul(z1, z2), Zero) /\ Less(Mul(x1, z2), Mul(x2, z1)) /\ ~Less(z1, Zero)

\* line 73
Wrap1(x1, z1, x2, z2) ==
    Crossing(z1, z2) /\ Less(Mul(x1, z2), Mul(x2, z1)) /\ Geq(z2, Zero)

\* line 76 without the test of the sign of z[j]
Wrap2Unsigned(x1, z1, x2, z2) ==
    Less(Mul(z1, z2), Zero) /\ Less(Mul(x2, z1), Mul(x1, z2))

\* line 76
Wrap2(x1, z1, x2, z2) ==
    Crossing(z1, z2) /\ Less(Mul(x2, z1), Mul(x1, z2)) /\ Geq(z1, Zero)

\* line 79
Collinear(x1, z1, x2, z2) ==
    Crossing(z1, z2) /\ Mul(x1, z2) = Mul(x2, z1)

\* line 86
AtVertex(x1, z1, x2, z2) ==
    (x1 = Zero /\ z1 = Zero) \/ (x2 = Zero /\ z2 = Zero)

\* the outcome the loop body takes for the edge
EdgeCase(x1, z1, x2, z2) ==
    IF Collinear(x1, z1, x2, z2) THEN "collinear"
    ELSE IF AtVertex(x1, z1, x2, z2) THEN "vertex"
    ELSE IF x1 = x2 THEN "vertical"
    ELSE "general"

Turned(th, wrap) == IF wrap THEN [th EXCEPT !.w = th.w + 1] ELSE th

\* line 100
CoefA(x1, z1, x2, z2) ==
    Quot(Mul(Sub(x2, x1), Sub(Mul(x1, z2), Mul(x2, z1))),
         Add(Sq(Sub(x2, x1)), Sq(Sub(z2, z1))))

\* line 101
CoefB(x1, z1, x2, z2) == Quot(Sub(z2, z1), Sub(x2, x1))

\* np.log(r[j+1]/r[j])
LogRatio(r1, r2) == [num |-> r2, den |-> r1]

NoQuot == [num |-> Zero, den |-> Int2Num(1)]
NoTheta == [x |-> Zero, z |-> Zero, w |-> 0]
NoDiff == [p |-> NoTheta, q |-> NoTheta]

\* a value of X[j] or Z[j]:
\*   "zero" 0;  "vz" x*log(lr);  "vx" -x*(d.p-d.q);
\*   "gz" A*((d.p-d.q)+B*log(lr));  "gx" A*(B*(d.p-d.q)+log(lr))
Term(f, x, A, B, d, lr) ==
    [f |-> f, x |-> x, A |-> A, B |-> B, d |-> d, lr |-> lr]

ZeroTerm == Term("zero", Zero, NoQuot, NoQuot, NoDiff, NoQuot)

\* the pass of the loop body for edge (j, j+1): the case taken and the two
\* angles as they stand at the end of the pass
Pass(x, z, theta, j) ==
    [case |-> EdgeCase(x[j], z[j], x[j + 1], z[j + 1]),
     theta1 |-> Turned(theta[j], Wrap1(x[j], z[j], x[j + 1], z[j + 1])),
     theta2 |-> Turned(theta[j + 1], Wrap2(x[j], z[j], x[j + 1], z[j + 1]))]

\* Z[j] as the pass leaves it, lines 80, 87, 94, 103
EdgeZ(x, z, r, p, j) ==
    IF p.case = "vertical"
    THEN Term("vz", x[j], NoQuot, NoQuot, NoDiff, LogRatio(r[j], r[j + 1]))
    ELSE IF p.case = "general"
    THEN Term("gz", Zero, CoefA(x[j], z[j], x[j + 1], z[j + 1]),
              CoefB(x[j], z[j], x[j + 1], z[j + 1]),
              [p |-> p.theta1, q |-> p.theta2], LogRatio(r[j], r[j + 1]))
    ELSE ZeroTerm

\* X[j] as the pass leaves it, lines 81, 88, 95, 104
EdgeX(x, z, r, p, j) ==
    IF p.case = "vertical"
    THEN Term("vx", x[j], NoQuot, NoQuot, [p |-> p.theta1, q |-> p.theta2], NoQuot)
    ELSE IF p.case = "general"
    THEN Term("gx", Zero, CoefA(x[j], z[j], x[j + 1], z[j + 1]),
              CoefB(x[j], z[j], x[j + 1], z[j + 1]),
              [p |-> p.theta2, q |-> p.theta1], LogRatio(r[j], r[j + 1]))
    ELSE ZeroTerm

\* the inner loop for one station, on the arrays x and z of lines 53-56:
\* the passes, and the arrays X and Z when it ends
EdgeLoop(x, z) ==
    LET theta == Theta(x, z)
        r == RSq(x, z)
        n == Len(x) - 1
        passes == [j \in 1 .. n |-> Pass(x, z, theta, j)]
    IN  [passes |-> passes,
         X |-> [j \in 1 .. n |-> EdgeX(x, z, r, passes[j], j)],
         Z |-> [j \in 1 .. n |-> EdgeZ(x, z, r, passes[j], j)]]

(***************************************************************************)
(* Grav, lines 42-49 and 108-111: the ring, the station loop, the result.  *)
(***************************************************************************)
\* the mantissa of G=6.67259e-11
GMantissa == 667259

\* self.exterior: the shell as a closed ring (the first point is repeated
\* at the end when the caller did not close it)
Exterior(shell) ==
    IF shell[1] = shell[Len(shell)] THEN shell ELSE Append(shell, shell[1])

Xs(ring) == [j \in DOMAIN ring |-> ring[j].x]
Zs(ring) == [j \in DOMAIN ring |-> ring[j].z]

\* 2*G*self.density*np.sum(T)*1e5: the factor in units of 1e-11, and the
\* array that is summed
Scaled(density, T) == [coef |-> 2 * GMantissa * density, sum |-> T]

\* the pass working in place on the polygon arrays
KeptAliased(polygon, local) == local

\* what the polygon array is after the pass for one station: the pass works
\* on the fresh arrays x and z, xPolygon and zPolygon are left as they were
Kept(polygon, local) == polygon

\* the station loop from station i on
RECURSIVE GravFrom(_, _, _, _, _, _)
GravFrom(density, xPolygon, zPolygon, xstations, zstations, i) ==
    IF i > Len(xstations) THEN << >>
    ELSE LET x == Shifted(xPolygon, xstations[i])
             z == Perturbed(Shifted(zPolygon, zstations[i]))
             loop == EdgeLoop(x, z)
         IN  << [x |-> Scaled(density, loop.X), z |-> Scaled(density, loop.Z),
                 passes |-> loop.passes] >>
             \o GravFrom(density, Kept(xPolygon, x), Kept(zPolygon, z),
                         xstations, zstations, i + 1)

\* Grav walking the coordinates of the holes after those of the exterior
GravOfAllRings(b, xstations, zstations) ==
    LET all == IF Len(b.holes) = 0 THEN b.exterior ELSE b.exterior \o b.holes[1]
    IN  GravFrom(b.density, Xs(all), Zs(all), xstations, zstations, 1)

\* Grav(xstations, zstations) on a body: per station the two anomalies and
\* the passes of the edge loop
GravOf(b, xstations, zstations) ==
    GravFrom(b.density, Xs(b.exterior), Zs(b.exterior), xstations, zstations, 1)

(***************************************************************************)
(* __init__, line 25: self.is_valid, the validity test of the geometry     *)
(* library.  It is exact on the coordinates: a coordinate c0 + c1*Tiny is  *)
(* the pair <<c0, c1>>, a product of two differences the polynomial        *)
(* <<c0, c1, c2>> in Tiny, whose sign is that of its first non-zero        *)
(* coefficient.                                                            *)
(***************************************************************************)
Lin(a) == IF a.k = 0 THEN << a.m, 0 >> ELSE << 0, a.m >>

LinSub(p, q) == << p[1] - q[1], p[2] - q[2] >>

PolyMul(p, q) == << p[1] * q[1], p[1] * q[2] + p[2] * q[1], p[2] * q[2] >>

PolySign(p) ==
    LET c == IF p[1] # 0 THEN p[1] ELSE IF p[2] # 0 THEN p[2] ELSE p[3]
    IN  IF c > 0 THEN 1 ELSE IF c < 0 THEN -1 ELSE 0

\* the side of c with respect to the line from a to b
Orient(a, b, c) ==
    LET l == PolyMul(LinSub(Lin(b.x), Lin(a.x)), LinSub(Lin(c.z), Lin(a.z)))
        r == PolyMul(LinSub(Lin(b.z), Lin(a.z)), LinSub(Lin(c.x), Lin(a.x)))
    IN  PolySign(<< l[1] - r[1], l[2] - r[2], l[3] - r[3] >>)

Leq(a, b) == ~Less(b, a)

\* c lies in the bounding box of a and b
InBox(a, b, c) ==
    /\ (Leq(a.x, c.x) /\ Leq(c.x, b.x)) \/ (Leq(b.x, c.x) /\ Leq(c.x, a.x))
    /\ (Leq(a.z, c.z) /\ Leq(c.z, b.z)) \/ (Leq(b.z, c.z) /\ Leq(c.z, a.z))

\* the closed segments ab and cd have a point in common
SegmentsMeet(a, b, c, d) ==
    LET o1 == Orient(a, b, c)
        o2 == Orient(a, b, d)
        o3 == Orient(c, d, a)
        o4 == Orient(c, d, b)
    IN  \/ o1 # o2 /\ o3 # o4
        \/ o1 = 0 /\ InBox(a, b, c)
        \/ o2 = 0 /\ InBox(a, b, d)
        \/ o3 = 0 /\ InBox(c, d, a)
        \/ o4 = 0 /\ InBox(c, d, b)

\* the ring without the points that repeat their predecessor
RECURSIVE Distinct(_)
Distinct(ring) ==
    IF Len(ring) <= 1 THEN ring
    ELSE LET rest == Distinct(Tail(ring))
         IN  IF ring[1] = rest[1] THEN rest ELSE << ring[1] >> \o rest

\* a closed ring that neither crosses nor touches itself
SimpleRing(ring) ==
    LET R == Distinct(ring)
        n == Len(R) - 1
    IN  /\ n >= 3
        /\ \A i \in 1 .. n : \A j \in (i + 1) .. n :
              IF j = i + 1 \/ (i = 1 /\ j = n)
              THEN LET v == IF j = i + 1 THEN R[j] ELSE R[1]
                       u == IF j = i + 1 THEN R[i] ELSE R[2]
                       w == IF j = i + 1 THEN R[j + 1] ELSE R[n]
                   IN  \* the two edges at v fold back onto each other
                       ~(Orient(u, v, w) = 0 /\ (InBox(u, v, w) \/ InBox(v, w, u)))
              ELSE ~SegmentsMeet(R[i], R[i + 1], R[j], R[j + 1])

\* p is strictly inside the simple ring (crossing number of the ray to +x)
Inside(ring, p) ==
    LET n == Len(ring) - 1
        up == {j \in 1 .. n : /\ Leq(ring[j].z, p.z) /\ Less(p.z, ring[j + 1].z)
                              /\ Orient(ring[j], ring[j + 1], p) > 0}
        down == {j \in 1 .. n : /\ Leq(ring[j + 1].z, p.z) /\ Less(p.z, ring[j].z)
                                /\ Orient(ring[j], ring[j + 1], p) < 0}
    IN  /\ \A j \in 1 .. n :
              ~(Orient(ring[j], ring[j + 1], p) = 0 /\ InBox(ring[j], ring[j + 1], p))
        /\ (Cardinality(up) + Cardinality(down)) % 2 = 1

\* a hole lies inside the shell without touching it
HoleInShell(shell, hole) ==
    /\ SimpleRing(hole)
    /\ \A j \in 1 .. Len(hole) : Inside(shell, hole[j])
    /\ \A i \in 1 .. (Len(shell) - 1) : \A j \in 1 .. (Len(hole) - 1) :
          ~SegmentsMeet(shell[i], shell[i + 1], hole[j], hole[j + 1])

\* is_valid of a polygon with this exterior ring and these holes
IsValid(exterior, holes) ==
    /\ SimpleRing(exterior)
    /\ \A h \in 1 .. Len(holes) : HoleInShell(exterior, holes[h])
    /\ \A g \in 1 .. Len(holes) : \A h \in (g + 1) .. Len(holes) :
          \A i \in 1 .. (Len(holes[g]) - 1) : \A j \in 1 .. (Len(holes[h]) - 1) :
             ~SegmentsMeet(holes[g][i], holes[g][i + 1], holes[h][j], holes[h][j + 1])

(***************************************************************************)
(* The state: one DensePolygon and the last call of Grav on it.            *)
(***************************************************************************)
VARIABLES
    body,       \* the DensePolygon: its exterior ring, its holes, its
                \* density; NoBody before a constructor has returned
    raised,     \* the exception the last operation raised, "none" if none
    last,       \* the last operation
    stations,   \* the caller's station arrays after that call
    ret         \* what the last call of Grav on the body as it is returned,
                \* per station

vars == << body, raised, last, stations, ret >>

NoBody == [exterior |-> << >>, holes |-> << >>, density |-> -1]

\* line 34 with the bound off by one
RejectedBelowMinusOne(value) == value < -1

\* the density setter, line 34
Rejected(value) == value < 0

\* the inputs
ShellPoints ==
    {Pt(Int2Num(a), Int2Num(b)) : a \in {0, ShellSize}, b \in {0, ShellSize}}

\* shells of distinct points, given open or closed (last point = first)
OpenShells ==
    UNION {{s \in [1 .. n -> ShellPoints] :
               \A i \in 1 .. n : \A j \in (i + 1) .. n : s[i] # s[j]} :
           n \in 3 .. MaxVerts}

Shells == OpenShells \cup {Append(s, s[1]) : s \in OpenShells}

Ring3(a, b, c) == << a, b, c, a >>

InnerHole == Ring3(Pt(Int2Num(1), Int2Num(1)), Pt(Int2Num(2), Int2Num(1)),
                   Pt(Int2Num(1), Int2Num(2)))

OuterHole == Ring3(Pt(Int2Num(1), Int2Num(1)), Pt(Int2Num(ShellSize + 1), Int2Num(1)),
                   Pt(Int2Num(1), Int2Num(2)))

HoleChoices == {<< >>, << InnerHole >>, << OuterHole >>}

Densities == -1 .. MaxDensity

\* stations on the profile at depth 0, as in main(), lines 132-133: one on
\* a corner of the shells, one on an edge of them
StationPoints == {Pt(Int2Num(a), Zero) : a \in {0, 1}}

StationSeqs == UNION {[1 .. n -> StationPoints] : n \in 0 .. MaxStations}

Init ==
    /\ body = NoBody
    /\ raised = "none"
    /\ last = "init"
    /\ stations = << >>
    /\ ret = << >>

\* DensePolygon(shell, density, holes), lines 22-26; the model follows one
\* object, from the constructor call that returns it
Construct(shell, density, holes) ==
    /\ body = NoBody
    /\ last' = "Construct"
    /\ IF Rejected(density)
       THEN /\ raised' = "ValueError: Minimum density allowed: 0 kg/m3"
            /\ UNCHANGED << body, stations, ret >>
       ELSE IF ~IsValid(Exterior(shell), holes)
       THEN /\ raised' = "ValueError: This is not a valid 2D geometry"
            /\ UNCHANGED << body, stations, ret >>
       ELSE /\ raised' = "none"
            /\ body' = [exterior |-> Exterior(shell), holes |-> holes,
                        density |-> density]
            /\ stations' = << >>
            /\ ret' = << >>

\* body.density = value, lines 32-36
SetDensity(value) ==
    /\ body # NoBody
    /\ last' = "SetDensity"
    /\ IF Rejected(value)
       THEN /\ raised' = "ValueError: Minimum density allowed: 0 kg/m3"
            /\ UNCHANGED body
            /\ UNCHANGED << stations, ret >>
       ELSE /\ raised' = "none"
            /\ body' = [body EXCEPT !.density = value]
            /\ stations' = << >>
            /\ ret' = << >>

\* body.Grav(xstations, zstations), lines 38-111
Grav(st) ==
    /\ body # NoBody
    /\ last' = "Grav"
    /\ raised' = "none"
    /\ stations' = st
    /\ ret' = GravOf(body, Xs(st), Zs(st))
    /\ UNCHANGED body

Next ==
    \/ \E shell \in Shells, density \in Densities, holes \in HoleChoices :
          Construct(shell, density, holes)
    \/ \E value \in Densities : SetDensity(value)
    \/ \E st \in StationSeqs : Grav(st)

Spec == Init /\ [][Next]_vars

(***************************************************************************)
(* The kernel alone: Grav at one station, for every triangle and station   *)
(* of a grid that also holds the coordinate Tiny.                          *)
(***************************************************************************)
KAxis == {Int2Num(a) : a \in 0 .. KMax} \cup {Tiny}

KPoints == {Pt(a, b) : a \in KAxis, b \in KAxis}

LexLess(p, q) == Less(p.x, q.x) \/ (p.x = q.x /\ Less(p.z, q.z))

\* the triangles, in both winding orders, each written from its least vertex
\* (the edge loop makes the same passes from whichever vertex the ring starts)
KRings ==
    {Ring3(t[1], t[2], t[3]) :
        t \in {u \in KPoints \X KPoints \X KPoints :
                  LexLess(u[1], u[2]) /\ LexLess(u[1], u[3])}}

KBodies ==
    {[exterior |-> e, holes |-> << >>, density |-> d] : e \in KRings, d \in {0, 1}}

KInit ==
    /\ body \in {b \in KBodies : IsValid(b.exterior, b.holes)}
    /\ raised = "none"
    /\ last = "Construct"
    /\ stations = << >>
    /\ ret = << >>

\* one call of Grav on the body, at one station
KNext == ret = << >> /\ \E s \in KPoints : Grav(<< s >>)

KernelSpec == KInit /\ [][KNext]_vars

(***************************************************************************)
(* Values of the doubles the terms stand for.                              *)
(***************************************************************************)
\* np.log(r[j+1]/r[j]) is a finite number: neither radius is zero
LogDefined(lr) == lr.num # Zero /\ lr.den # Zero

QuotDefined(q) == q.den # Zero

\* the term is a finite double (not inf, not nan)
TermFinite(t) ==
    IF t.f = "vz" THEN LogDefined(t.lr)
    ELSE IF t.f \in {"gz", "gx"}
    THEN QuotDefined(t.A) /\ QuotDefined(t.B) /\ LogDefined(t.lr)
    ELSE TRUE

\* coef * sum(T) is the double 0
ValueIsZero(a) ==
    /\ \A j \in DOMAIN a.sum : TermFinite(a.sum[j])
    /\ a.coef = 0 \/ \A j \in DOMAIN a.sum : a.sum[j].f = "zero"

InverseRatio(lr, ls) == lr.num = ls.den /\ lr.den = ls.num

\* t = -u: the same factors, the angle difference and the log ratio turned
\* round (p - q = -(q - p), log(a/b) = -log(b/a))
NegTerm(t, u) ==
    /\ t.f = u.f
    /\ t.x = u.x /\ t.A = u.A /\ t.B = u.B
    /\ t.d.p = u.d.q /\ t.d.q = u.d.p
    /\ IF t.f \in {"vz", "gz", "gx"} THEN InverseRatio(t.lr, u.lr) ELSE t.lr = u.lr

Reverse(s) == [j \in 1 .. Len(s) |-> s[Len(s) + 1 - j]]

\* the arrays x and z of lines 53-56 for station i of the last call
RelX(i) == Shifted(Xs(body.exterior), stations[i].x)
RelZ(i) == Perturbed(Shifted(Zs(body.exterior), stations[i].z))

Called == last = "Grav"

Edges == 1 .. (Len(body.exterior) - 1)

(***************************************************************************)
(* C9.  Branch-cut correction.  For every station and edge of a call, with *)
(* x, z the station-relative coordinates after the zero-z perturbation:    *)
(* theta1 is raised by 2*pi exactly when z[j]*z[j+1] < 0,                  *)
(* x[j]*z[j+1] < x[j+1]*z[j] and z[j+1] >= 0; theta2 exactly when          *)
(* z[j]*z[j+1] < 0, x[j]*z[j+1] > x[j+1]*z[j] and z[j] >= 0; never both,   *)
(* never more than once, and neither when z[j]*z[j+1] >= 0.                *)
(***************************************************************************)
C9_Turns(i, j) ==
    LET x1 == Sub(body.exterior[j].x, stations[i].x)
        x2 == Sub(body.exterior[j + 1].x, stations[i].x)
        d1 == Sub(body.exterior[j].z, stations[i].z)
        d2 == Sub(body.exterior[j + 1].z, stations[i].z)
        z1 == IF d1 = Zero THEN Eps ELSE d1
        z2 == IF d2 = Zero THEN Eps ELSE d2
        crossing == Less(Mul(z1, z2), Zero)
        lt == Less(Mul(x1, z2), Mul(x2, z1))
        gt == Less(Mul(x2, z1), Mul(x1, z2))
    IN  [t1 |-> IF crossing /\ lt /\ ~Less(z2, Zero) THEN 1 ELSE 0,
         t2 |-> IF crossing /\ ~lt /\ gt /\ ~Less(z1, Zero) THEN 1 ELSE 0,
         crossing |-> crossing,
         a1 |-> [x |-> x1, z |-> z1], a2 |-> [x |-> x2, z |-> z2]]

\* C9: each pass leaves theta1 and theta2 turned exactly as stated above
C9_BranchCut ==
    Called =>
        \A i \in DOMAIN ret : \A j \in Edges :
            LET p == ret[i].passes[j]
                e == C9_Turns(i, j)
            IN  /\ p.theta1 = [x |-> e.a1.x, z |-> e.a1.z, w |-> e.t1]
                /\ p.theta2 = [x |-> e.a2.x, z |-> e.a2.z, w |-> e.t2]
                /\ p.theta1.w + p.theta2.w <= 1
                /\ ~e.crossing => p.theta1.w = 0 /\ p.theta2.w = 0

\* a call in which one edge had theta1 raised and another had theta2 raised
C9_Witness ==
    /\ Called
    /\ \E i \in DOMAIN ret : \E j \in Edges, k \in Edges :
          ret[i].passes[j].theta1.w = 1 /\ ret[i].passes[k].theta2.w = 1

(***************************************************************************)
(* C8.  Degenerate vertex.  When a station coincides exactly with a vertex *)
(* of the ring (its station-relative x and z are both 0), each edge with   *)
(* that vertex as an endpoint takes the degenerate-vertex case and         *)
(* contributes (0, 0).                                                     *)
(***************************************************************************)
OnStation(i, j) ==
    /\ Sub(body.exterior[j].x, stations[i].x) = Zero
    /\ Sub(body.exterior[j].z, stations[i].z) = Zero

C8_VertexCase ==
    Called =>
        \A i \in DOMAIN ret : \A j \in Edges :
            OnStation(i, j) \/ OnStation(i, j + 1) =>
                /\ ret[i].passes[j].case = "vertex"
                /\ ret[i].x.sum[j] = ZeroTerm
                /\ ret[i].z.sum[j] = ZeroTerm

\* C8, what the code does instead: no pass ever takes the degenerate-vertex
\* case, as line 56 has made every z non-zero before line 86 tests z == 0
C8_CaseNeverTaken ==
    Called =>
        \A i \in DOMAIN ret : \A j \in Edges : ret[i].passes[j].case # "vertex"

(***************************************************************************)
(* C7.  Dispatch.  For each station every edge of the closed ring, the     *)
(* closing edge included, is dispatched once, to the first of: (1) the     *)
(* edge crosses the station's horizontal and its line passes through the   *)
(* station -> (0, 0); (2) an endpoint coincides with the station ->        *)
(* (0, 0); (3) x[j] = x[j+1] -> the vertical-edge formula; (4) the general *)
(* formula.  The outcome depends on the edge and the station alone.        *)
(***************************************************************************)
C7_Outcome(i, j) ==
    LET x1 == Sub(body.exterior[j].x, stations[i].x)
        x2 == Sub(body.exterior[j + 1].x, stations[i].x)
        e == C9_Turns(i, j)
    IN  IF e.crossing /\ Mul(x1, e.a2.z) = Mul(x2, e.a1.z) THEN "collinear"
        ELSE IF OnStation(i, j) \/ OnStation(i, j + 1) THEN "vertex"
        ELSE IF x1 = x2 THEN "vertical"
        ELSE "general"

\* C7: each pass takes the outcome the priority order above gives
C7_Dispatch ==
    Called =>
        \A i \in DOMAIN ret :
            /\ DOMAIN ret[i].passes = Edges
            /\ DOMAIN ret[i].x.sum = Edges
            /\ DOMAIN ret[i].z.sum = Edges
            /\ \A j \in Edges :
                  LET c == C7_Outcome(i, j)
                  IN  /\ ret[i].passes[j].case = c
                      /\ ret[i].x.sum[j].f =
                            (IF c = "vertical" THEN "vx"
                             ELSE IF c = "general" THEN "gx" ELSE "zero")
                      /\ ret[i].z.sum[j].f =
                            (IF c = "vertical" THEN "vz"
                             ELSE IF c = "general" THEN "gz" ELSE "zero")

\* C7 for the edges that have no endpoint on the station: the code takes the
\* outcome of the priority order
C7_DispatchOffStation ==
    Called =>
        \A i \in DOMAIN ret : \A j \in Edges :
            ~(OnStation(i, j) \/ OnStation(i, j + 1)) =>
                ret[i].passes[j].case = C7_Outcome(i, j)

(***************************************************************************)
(* C3.  No undefined step.  For every valid polygon and station, every     *)
(* vertex radius r[j] is non-zero, the general case is reached only with   *)
(* x[j+1] # x[j], the divisors of A and B are non-zero, and every          *)
(* contribution X[j], Z[j] is a finite value.                              *)
(***************************************************************************)
C3_Defined ==
    Called =>
        \A i \in DOMAIN ret :
            /\ \A j \in DOMAIN body.exterior : RSq(RelX(i), RelZ(i))[j] # Zero
            /\ \A j \in Edges :
                  /\ ret[i].passes[j].case = "general" =>
                        /\ RelX(i)[j + 1] # RelX(i)[j]
                        /\ QuotDefined(ret[i].z.sum[j].A)
                        /\ QuotDefined(ret[i].z.sum[j].B)
                  /\ TermFinite(ret[i].x.sum[j])
                  /\ TermFinite(ret[i].z.sum[j])

\* no coordinate of the ring or of a station is Tiny
Ordinary ==
    /\ \A j \in DOMAIN body.exterior :
          body.exterior[j].x.k = 0 /\ body.exterior[j].z.k = 0
    /\ \A i \in DOMAIN stations : stations[i].x.k = 0 /\ stations[i].z.k = 0

\* C3 for coordinates of ordinary size: every step is defined
C3_DefinedOrdinary == Ordinary => C3_Defined

(***************************************************************************)
(* C5.  Linearity in the density.  With the same ring and stations, the    *)
(* body of twice the density has twice the horizontal and twice the        *)
(* vertical anomaly at every station, and the body of density 0 has        *)
(* anomaly 0 at every station.                                             *)
(***************************************************************************)
C5_Linear ==
    Called =>
        LET twice == GravOf([body EXCEPT !.density = 2 * body.density],
                            Xs(stations), Zs(stations))
        IN  \A i \in DOMAIN ret :
                /\ twice[i].x.coef = 2 * ret[i].x.coef
                /\ twice[i].z.coef = 2 * ret[i].z.coef
                /\ twice[i].x.sum = ret[i].x.sum
                /\ twice[i].z.sum = ret[i].z.sum
                /\ body.density = 0 =>
                      ValueIsZero(ret[i].x) /\ ValueIsZero(ret[i].z)

\* C5 for the calls in which every contribution is finite
C5_LinearFinite ==
    (\A i \in DOMAIN ret : \A j \in Edges :
        TermFinite(ret[i].x.sum[j]) /\ TermFinite(ret[i].z.sum[j]))
    => C5_Linear

(***************************************************************************)
(* C6.  Winding order.  For the ring walked in the reverse order, every    *)
(* edge takes the case it takes in the forward order, and its pair         *)
(* (X, Z) is the negation of the forward pair, at every station.           *)
(***************************************************************************)
C6_Reversal ==
    Called =>
        LET n == Len(body.exterior)
            back == GravOf([body EXCEPT !.exterior = Reverse(body.exterior)],
                           Xs(stations), Zs(stations))
        IN  \A i \in DOMAIN ret : \A j \in Edges :
                /\ back[i].passes[n - j].case = ret[i].passes[j].case
                /\ NegTerm(back[i].x.sum[n - j], ret[i].x.sum[j])
                /\ NegTerm(back[i].z.sum[n - j], ret[i].z.sum[j])
                /\ back[i].x.coef = ret[i].x.coef
                /\ back[i].z.coef = ret[i].z.coef

\* a call in which the ring has a general edge with theta1 turned and a
\* vertical edge with theta2 turned
C6_Witness ==
    /\ Called
    /\ \E i \in DOMAIN ret : \E j \in Edges, k \in Edges :
          /\ ret[i].passes[j].case = "general" /\ ret[i].passes[j].theta1.w = 1
          /\ ret[i].passes[k].case = "vertical" /\ ret[i].passes[k].theta2.w = 1

(***************************************************************************)
(* C1.  Shape of the result.  Grav returns, for every body and every       *)
(* station sequence (the empty one included), one entry per station in     *)
(* each of its two arrays, and entry i is computed from station i: its     *)
(* edge passes are those of the ring's vertices minus station i, its       *)
(* factor 2*G*density*1e5.                                                 *)
(***************************************************************************)
C1_Angle(i, j) ==
    LET dz == Sub(body.exterior[j].z, stations[i].z)
    IN  [x |-> Sub(body.exterior[j].x, stations[i].x),
         z |-> IF dz = Zero THEN Eps ELSE dz]

\* C1: one entry per station, entry i computed from station i
C1_Aligned ==
    Called =>
        /\ Len(ret) = Len(stations)
        /\ \A i \in DOMAIN ret :
              /\ DOMAIN ret[i].x.sum = Edges
              /\ DOMAIN ret[i].z.sum = Edges
              /\ ret[i].x.coef = 2 * GMantissa * body.density
              /\ ret[i].z.coef = 2 * GMantissa * body.density
              /\ \A j \in Edges :
                    /\ ret[i].passes[j].theta1.x = C1_Angle(i, j).x
                    /\ ret[i].passes[j].theta1.z = C1_Angle(i, j).z
                    /\ ret[i].passes[j].theta2.x = C1_Angle(i, j + 1).x
                    /\ ret[i].passes[j].theta2.z = C1_Angle(i, j + 1).z

\* a call with two different stations
C1_Witness ==
    Called /\ Len(stations) = 2 /\ stations[1] # stations[2] /\ Len(ret) = 2

(***************************************************************************)
(* C2.  Validation.  Every body there is has a geometry that passed the    *)
(* validity test, a closed exterior ring and a density >= 0; an operation  *)
(* that raises (a constructor given an invalid polygon or a negative       *)
(* density, an assignment of a negative density) leaves the body, its      *)
(* density and the results as they were, so a failed constructor yields no *)
(* body and Grav is never run for it.                                      *)
(***************************************************************************)
C2_BodyValid ==
    body # NoBody =>
        /\ body.density >= 0
        /\ IsValid(body.exterior, body.holes)
        /\ Len(body.exterior) >= 4
        /\ body.exterior[1] = body.exterior[Len(body.exterior)]

\* C2: every body is valid, and an operation that raises changes nothing
C2_Validated ==
    /\ [](C2_BodyValid /\ (body = NoBody => ret = << >> /\ last # "Grav"))
    /\ [][raised' # "none" => body' = body /\ ret' = ret /\ stations' = stations]_vars

\* a negative density was assigned to a body and raised
C2_Witness == body # NoBody /\ last = "SetDensity" /\ raised # "none"

(***************************************************************************)
(* C4.  Purity.  A call of Grav leaves the body (ring, holes, density) as  *)
(* it was; the entry for a station is what a call with that station alone  *)
(* returns, so it depends neither on the other stations nor on their order *)
(* nor on an earlier call; the same call again returns the same values.    *)
(***************************************************************************)
C4_Alone(i) == GravOf(body, << stations[i].x >>, << stations[i].z >>)[1]

\* C4: Grav changes nothing and each entry depends on its station alone
C4_Pure ==
    /\ [](Called =>
            /\ \A i \in DOMAIN ret : ret[i] = C4_Alone(i)
            /\ GravOf(body, Xs(Reverse(stations)), Zs(Reverse(stations))) = Reverse(ret)
            /\ GravOf(body, Xs(stations), Zs(stations)) = ret)
    /\ [][last' = "Grav" => body' = body]_vars

\* a call with two stations, the first of which has a vertex at its depth
\* (so that the pass for it perturbs a zero z) and is off the origin
C4_Witness ==
    /\ Called /\ Len(stations) = 2
    /\ stations[1].x # Zero
    /\ \E j \in Edges : body.exterior[j].z = stations[1].z

(***************************************************************************)
(* C10.  Holes.  The result of Grav depends on the exterior ring and the   *)
(* density alone: the body with the same ring and density and any other    *)
(* holes returns the same values at every station.                         *)
(***************************************************************************)
C10_HolesIgnored ==
    Called =>
        \A h \in HoleChoices :
            GravOf([body EXCEPT !.holes = h], Xs(stations), Zs(stations)) = ret

\* a call on a body that has a hole
C10_Witness == Called /\ Len(body.holes) > 0 /\ Len(stations) > 0

====
